---- MODULE Spec2Model ----
(***************************************************************************)
(* Model of the Unsplash Rovo agent example: the searchPhotos action       *)
(* (src/actions.js) and the saveAccessKey / isAccessKeySet resolvers       *)
(* (src/resolver.js), running against the Forge secret store and the       *)
(* remote Unsplash search endpoint.                                        *)
(*                                                                         *)
(* JavaScript values are tagged records ([t |-> "undefined"], "null",      *)
(* "string", "number", "object").  A string is a sequence of atoms: an     *)
(* atom is a character or a literal chunk of a message; " " is the         *)
(* whitespace atom.  Template literals are concatenations of such          *)
(* sequences.                                                              *)
(***************************************************************************)
EXTENDS Integers, Sequences, FiniteSets, TLC

\* ------------------------------------------------------------------------
\* JavaScript values
\* ------------------------------------------------------------------------
Undefined == [t |-> "undefined"]
Null == [t |-> "null"]
Str(s) == [t |-> "string", v |-> s]
Num(n) == [t |-> "number", v |-> n]

\* A `const` local whose declaration has not been executed yet.
Unassigned == [t |-> "unassigned"]

\* JavaScript truthiness, as used by `!x`, `x || y` and `if (x)`.
Truthy(x) ==
  CASE x.t = "undefined" -> FALSE
    [] x.t = "null" -> FALSE
    [] x.t = "string" -> x.v # << >>
    [] x.t = "number" -> x.v # 0
    [] OTHER -> TRUE

\* Property access on undefined or null throws a TypeError.
Nullish(x) == x.t \in {"undefined", "null"}

Digit(d) ==
  CASE d = 0 -> "0" [] d = 1 -> "1" [] d = 2 -> "2" [] d = 3 -> "3"
    [] d = 4 -> "4" [] d = 5 -> "5" [] d = 6 -> "6" [] d = 7 -> "7"
    [] d = 8 -> "8" [] d = 9 -> "9"

RECURSIVE NatToStr(_)
NatToStr(n) ==
  IF n < 10 THEN << Digit(n) >>
  ELSE NatToStr(n \div 10) \o << Digit(n % 10) >>

\* String conversion of a value interpolated into a template literal or
\* handed to URLSearchParams.
ToStr(x) ==
  CASE x.t = "undefined" -> << "undefined" >>
    [] x.t = "null" -> << "null" >>
    [] x.t = "string" -> x.v
    [] x.t = "number" -> NatToStr(x.v)
    [] OTHER -> << "[object Object]" >>

IsSpace(a) == a = " "

\* String.prototype.trim: drop leading and trailing whitespace.
RECURSIVE TrimLeft(_)
TrimLeft(s) ==
  IF s # << >> /\ IsSpace(Head(s)) THEN TrimLeft(Tail(s)) ELSE s

RECURSIVE TrimRight(_)
TrimRight(s) ==
  IF s # << >> /\ IsSpace(s[Len(s)]) THEN TrimRight(SubSeq(s, 1, Len(s) - 1))
  ELSE s

Trim(s) == TrimRight(TrimLeft(s))

\* ------------------------------------------------------------------------
\* Outcome of a synchronous stretch of code
\* ------------------------------------------------------------------------
Ret(r) == [kind |-> "return", value |-> r]
Thr(e) == [kind |-> "throw", error |-> e]
Go(req) == [kind |-> "fetch", request |-> req]

\* ------------------------------------------------------------------------
\* searchPhotos: responses
\* ------------------------------------------------------------------------
Failure(msg) == [error |-> msg, status |-> "error"]

NotConfiguredMsg ==
  << "Unsplash access key not configured. Please contact your administrator to set up the access key." >>
QueryRequiredMsg == << "Search query is required" >>
InvalidKeyMsg ==
  << "Invalid access key. Please contact your administrator to update the Unsplash access key." >>
ApiErrorPrefix == << "Unsplash API error: " >>
GenericFailureMsg == << "Failed to search photos. Please try again later." >>

\* `if (!accessKey)`
KeyMissing(k) == ~Truthy(k)

\* Variant: only an omitted query is rejected.
QueryMissingOmittedOnly(q) == q.t = "undefined"

\* `if (!query)`
QueryMissing(q) == ~Truthy(q)

BaseUrl == "https://api.unsplash.com/search/photos"
PerPage == << "1", "0" >>

\* Variant: the filter is appended unconditionally.
AppendAlways(params, name, x) == Append(params, << name, ToStr(x) >>)

\* `if (color)` / `if (orientation)`: params.append(name, value)
AppendIf(params, name, x) ==
  IF Truthy(x) THEN Append(params, << name, ToStr(x) >>) ELSE params

\* new URLSearchParams({query, per_page: '10', client_id}) followed by the
\* optional appends; the result is the ordered list of key/value pairs.
BuildParams(query, color, orientation, key) ==
  AppendIf(
    AppendIf(<< << "query", ToStr(query) >>,
                << "per_page", PerPage >>,
                << "client_id", ToStr(key) >> >>,
             "color", color),
    "orientation", orientation)

BuildRequest(query, color, orientation, key) ==
  [method |-> "GET", base |-> BaseUrl, accept |-> "application/json",
   params |-> BuildParams(query, color, orientation, key)]

\* Variant: the query is validated before the credential is looked at.
AfterSecretQueryFirst(p, k) ==
  IF Nullish(p) THEN Thr("TypeError: cannot destructure payload")
  ELSE IF QueryMissing(p.query) THEN Ret(Failure(QueryRequiredMsg))
  ELSE IF KeyMissing(k) THEN Ret(Failure(NotConfiguredMsg))
  ELSE Go(BuildRequest(p.query, p.color, p.orientation, k))

\* The code between the resolution of getSecret and the call of fetch.
AfterSecret(p, k) ==
  IF KeyMissing(k) THEN Ret(Failure(NotConfiguredMsg))
  ELSE IF Nullish(p) THEN Thr("TypeError: cannot destructure payload")
  ELSE IF QueryMissing(p.query) THEN Ret(Failure(QueryRequiredMsg))
  ELSE Go(BuildRequest(p.query, p.color, p.orientation, k))

\* `response.ok`: the status is in the range 200-299.
Ok(status) == status >= 200 /\ status <= 299

\* Variant: the 401 message carries the status as well.
OnErrorStatusVerbose(status) ==
  IF status = 401 THEN Failure(InvalidKeyMsg \o NatToStr(status))
  ELSE Failure(ApiErrorPrefix \o NatToStr(status))

\* Variant: no status is special-cased.
OnErrorStatusGeneric(status) == Failure(ApiErrorPrefix \o NatToStr(status))

\* Variant: 403 is special-cased like 401.
OnErrorStatusForbidden(status) ==
  IF status \in {401, 403} THEN Failure(InvalidKeyMsg)
  ELSE Failure(ApiErrorPrefix \o NatToStr(status))

\* The branch taken on a non-success status, after the body was read.
OnErrorStatus(status) ==
  IF status = 401 THEN Failure(InvalidKeyMsg)
  ELSE Failure(ApiErrorPrefix \o NatToStr(status))

\* Variant: the alternate description is not consulted.
DescriptionNoAlt(photo) ==
  IF Truthy(photo.description) THEN photo.description
  ELSE Str(<< "Untitled" >>)

\* photo.description || photo.alt_description || 'Untitled'
Description(photo) ==
  IF Truthy(photo.description) THEN photo.description
  ELSE IF Truthy(photo.alt_description) THEN photo.alt_description
  ELSE Str(<< "Untitled" >>)

\* The property chains of the mapping callback that throw a TypeError:
\* photo.urls.regular, photo.urls.thumb, photo.user.name,
\* photo.user.links.html, photo.links.download_location.
PhotoThrows(photo) ==
  \/ Nullish(photo)
  \/ Nullish(photo.urls)
  \/ Nullish(photo.user)
  \/ Nullish(photo.user.links)
  \/ Nullish(photo.links)

\* Variant: url and thumbnail are taken from each other's source.
MapPhotoSwapped(photo) ==
  [id |-> photo.id,
   description |-> Description(photo),
   url |-> photo.urls.thumb,
   thumbnail |-> photo.urls.regular,
   photographer |-> photo.user.name,
   photographer_url |-> photo.user.links.html,
   download_url |-> photo.links.download_location]

\* The object literal built by the mapping callback.
MapPhoto(photo) ==
  [id |-> photo.id,
   description |-> Description(photo),
   url |-> photo.urls.regular,
   thumbnail |-> photo.urls.thumb,
   photographer |-> photo.user.name,
   photographer_url |-> photo.user.links.html,
   download_url |-> photo.links.download_location]

\* data.results.map(...)
MapPhotos(list) == [i \in 1..Len(list) |-> MapPhoto(list[i])]

FoundMsg(total, query) ==
  << "Found " >> \o ToStr(total) \o << " photos for \"" >> \o ToStr(query)
    \o << "\"" >>

NoneFoundMsg(query) ==
  << "No photos found for \"" >> \o ToStr(query)
    \o << "\". Try different search terms." >>

\* Variant: total is the number of mapped results.
FoundResponseCounted(data, query) ==
  [status |-> "success",
   total |-> Num(Len(data.results.v)),
   results |-> MapPhotos(data.results.v),
   message |-> FoundMsg(Num(Len(data.results.v)), query)]

FoundResponse(data, query) ==
  [status |-> "success",
   total |-> data.total,
   results |-> MapPhotos(data.results.v),
   message |-> FoundMsg(data.total, query)]

EmptyResponse(query) ==
  [status |-> "success",
   total |-> Num(0),
   results |-> << >>,
   message |-> NoneFoundMsg(query)]

\* Variant: the length of the list is not looked at.
HasResultsNoLength(data) == Truthy(data.results)

\* `data.results && data.results.length > 0`
HasResults(data) == Truthy(data.results) /\ Len(data.results.v) > 0

\* The code after `await response.json()` resolved with data.
OnJson(data, query) ==
  IF HasResults(data)
  THEN IF \E i \in 1..Len(data.results.v) : PhotoThrows(data.results.v[i])
       THEN Thr("TypeError: cannot read properties of undefined")
       ELSE Ret(FoundResponse(data, query))
  ELSE Ret(EmptyResponse(query))

\* Variant: the error is rethrown to the caller.
CatchRethrow(o) == o

\* Variant: the caught error's text is returned to the caller.
CatchLeak(o) ==
  IF o.kind = "throw" THEN Ret(Failure(<< o.error >>)) ELSE o

\* The catch clause of searchPhotos: every thrown error becomes the generic
\* failure.
Catch(o) ==
  IF o.kind = "throw" THEN Ret(Failure(GenericFailureMsg)) ELSE o

\* console.error('Error searching photos:', error) in the catch clause.
CatchLog(o) ==
  IF o.kind = "throw"
  THEN << << "error", "Error searching photos:", o.error >> >>
  ELSE << >>

\* ------------------------------------------------------------------------
\* Resolvers (src/resolver.js)
\* ------------------------------------------------------------------------
KeyRequiredMsg == << "Access key is required" >>
SaveFailedMsg == << "Failed to save Access key. Please try again." >>
SavedMsg == << "Access key saved successfully" >>
CheckFailedMsg == << "Failed to check access key status." >>

\* The error a faulting secret store rejects with.
StoreError == "Error: storage unavailable"

\* Variant: the key is not trimmed before the emptiness test.
KeyRejectedNoTrim(k) == ~Truthy(k)

\* `!accessKey || !accessKey.trim()`
KeyRejected(k) == ~Truthy(k) \/ ~Truthy(Str(Trim(k.v)))

\* Variant: the key is stored as submitted.
KeyToStoreRaw(k) == k

\* The value handed to setSecret.
KeyToStore(k) == Str(Trim(k.v))

\* Variant: the caught error's text is returned to the caller.
SaveCatchLeak(e) == Ret([success |-> FALSE, error |-> << e >>])

\* The catch clause of saveAccessKey.
SaveCatch(e) == Ret([success |-> FALSE, error |-> SaveFailedMsg])

\* Variant: setSecret is not awaited, so its rejection is not seen and the
\* call reports success.
SaveAccessKeyRunNoAwait(req, old, fault) ==
  IF Nullish(req.payload)
  THEN [outcome |-> Thr("TypeError: cannot destructure payload"),
        setSecretCalls |-> 0, storeThrew |-> FALSE, store |-> old]
  ELSE IF KeyRejected(req.payload.accessKey)
  THEN [outcome |-> Ret([success |-> FALSE, error |-> KeyRequiredMsg]),
        setSecretCalls |-> 0, storeThrew |-> FALSE, store |-> old]
  ELSE [outcome |-> Ret([success |-> TRUE, message |-> SavedMsg]),
        setSecretCalls |-> 1, storeThrew |-> fault,
        store |-> IF fault THEN old ELSE KeyToStore(req.payload.accessKey)]

\* Variant: submitting an empty key clears the stored credential.
SaveAccessKeyRunClearing(req, old, fault) ==
  IF Nullish(req.payload)
  THEN [outcome |-> Thr("TypeError: cannot destructure payload"),
        setSecretCalls |-> 0, storeThrew |-> FALSE, store |-> old]
  ELSE IF KeyRejected(req.payload.accessKey)
  THEN [outcome |-> Ret([success |-> FALSE, error |-> KeyRequiredMsg]),
        setSecretCalls |-> 0, storeThrew |-> FALSE, store |-> Undefined]
  ELSE IF fault
  THEN [outcome |-> SaveCatch(StoreError),
        setSecretCalls |-> 1, storeThrew |-> TRUE, store |-> old]
  ELSE [outcome |-> Ret([success |-> TRUE, message |-> SavedMsg]),
        setSecretCalls |-> 1, storeThrew |-> FALSE,
        store |-> KeyToStore(req.payload.accessKey)]

\* saveAccessKey: the outcome, the number of setSecret calls, whether
\* setSecret rejected, and the store afterwards, for request req, store
\* content old, and a store that faults (fault) or not.  The destructuring
\* of req.payload is outside the try.
SaveAccessKeyRun(req, old, fault) ==
  IF Nullish(req.payload)
  THEN [outcome |-> Thr("TypeError: cannot destructure payload"),
        setSecretCalls |-> 0, storeThrew |-> FALSE, store |-> old]
  ELSE IF KeyRejected(req.payload.accessKey)
  THEN [outcome |-> Ret([success |-> FALSE, error |-> KeyRequiredMsg]),
        setSecretCalls |-> 0, storeThrew |-> FALSE, store |-> old]
  ELSE IF fault
  THEN [outcome |-> SaveCatch(StoreError),
        setSecretCalls |-> 1, storeThrew |-> TRUE, store |-> old]
  ELSE [outcome |-> Ret([success |-> TRUE, message |-> SavedMsg]),
        setSecretCalls |-> 1, storeThrew |-> FALSE,
        store |-> KeyToStore(req.payload.accessKey)]

\* Variant: the status carries the stored value.
IsAccessKeySetRunLeak(stored, fault) ==
  IF fault THEN Ret([isSet |-> FALSE, error |-> CheckFailedMsg])
  ELSE Ret([isSet |-> Truthy(stored), accessKey |-> stored])

\* isAccessKeySet: `{ isSet: !!accessKey }`, or the failure of the catch.
IsAccessKeySetRun(stored, fault) ==
  IF fault THEN Ret([isSet |-> FALSE, error |-> CheckFailedMsg])
  ELSE Ret([isSet |-> Truthy(stored)])

\* ------------------------------------------------------------------------
\* Inputs
\* ------------------------------------------------------------------------
MaxResults == 2

Calls == {1, 2}
SeqCalls == {1}

Queries == {Undefined, Str(<< >>), Str(<< " " >>), Str(<< " ", "cats", " " >>)}
Colors == {Undefined, Str(<< >>), Str(<< "red" >>)}
Orientations == {Undefined, Null, Str(<< "landscape" >>)}

Payloads ==
  {Undefined} \cup
  {[t |-> "object", query |-> q, color |-> c, orientation |-> o] :
     q \in Queries, c \in Colors, o \in Orientations}

\* The admin form: the texts typed into the key input, and the number of
\* onSubmit calls that can be suspended on invoke at once.
MaxInFlight == 2
Slots == 1..MaxInFlight
TypedKeys ==
  {Str(<< >>), Str(<< " " >>), Str(<< " ", "k1", " " >>), Str(<< "k2" >>)}
BridgeErrors == {"Error: bridge unavailable"}

SubmittedKeys ==
  {Undefined, Str(<< >>), Str(<< " " >>), Str(<< " ", "k1", " " >>),
   Str(<< "k2" >>)}

SaveRequests ==
  {[payload |-> Undefined]} \cup
  {[payload |-> [t |-> "object", accessKey |-> k]] : k \in SubmittedKeys}

Statuses == {200, 401, 403, 404, 429, 500}
ErrorTexts == {<< "{\"errors\":[\"OAuth error: The access token is invalid\"]}" >>,
               << "Rate Limit Exceeded" >>}

FetchErrors == {"TypeError: fetch failed", "Error: socket hang up"}
JsonErrors == {"SyntaxError: Unexpected token < in JSON",
               "SyntaxError: Unexpected end of JSON input"}

Photo(id, description, alt, hasUrls, hasUser, hasUserLinks) ==
  [t |-> "object",
   id |-> Str(<< id >>),
   description |-> description,
   alt_description |-> alt,
   urls |-> IF hasUrls
            THEN [t |-> "object",
                  regular |-> Str(<< "https://images.unsplash.com/", id, "?w=1080" >>),
                  thumb |-> Str(<< "https://images.unsplash.com/", id, "?w=200" >>)]
            ELSE Undefined,
   user |-> IF hasUser
            THEN [t |-> "object",
                  name |-> Str(<< "photographer of ", id >>),
                  links |-> IF hasUserLinks
                            THEN [t |-> "object",
                                  html |-> Str(<< "https://unsplash.com/@", id >>)]
                            ELSE Undefined]
            ELSE Undefined,
   links |-> [t |-> "object",
              download_location |->
                Str(<< "https://api.unsplash.com/photos/", id, "/download" >>)]]

PhotoFull ==
  Photo("p1", Str(<< "A cat" >>), Str(<< "cat on a sofa" >>), TRUE, TRUE, TRUE)
PhotoAlt == Photo("p2", Str(<< >>), Str(<< "grey kitten" >>), TRUE, TRUE, TRUE)
PhotoNullDesc == Photo("p3", Null, Str(<< >>), TRUE, TRUE, TRUE)
PhotoNoUrls == Photo("p5", Str(<< "A dog" >>), Null, FALSE, TRUE, TRUE)

Photos == {PhotoFull, PhotoAlt, PhotoNullDesc, PhotoNoUrls}

PhotoLists == UNION {[1..n -> Photos] : n \in 0..MaxResults}

Totals == {Undefined, Num(0), Num(137)}

ResultLists == {Undefined, Null} \cup {[t |-> "array", v |-> l] : l \in PhotoLists}

Bodies == {[t |-> "object", total |-> n, results |-> r] :
             n \in Totals, r \in ResultLists}

\* ------------------------------------------------------------------------
\* State
\* ------------------------------------------------------------------------
VARIABLES
  secret,       \* the store's value under 'unsplash-access-key'
  pc,           \* per invocation of searchPhotos: where it is suspended
  payload,      \* per invocation: its argument
  accessKey,    \* per invocation: the local read from the store
  request,      \* per invocation: the outbound request handed to fetch
  fetches,      \* per invocation: the number of fetch calls made
  response,     \* per invocation: status and ok of the received response
  errorText,    \* per invocation: the body text of a non-success response
  data,         \* per invocation: the parsed body
  result,       \* per invocation: how the call ended (returned or threw)
  log,          \* per invocation: console output
  resolved,     \* the last resolver call: function, request, outcome and
                \* the number of setSecret calls it made
  formKey,      \* admin form: the `accessKey` state, the text of the input
  isLoading,    \* admin form: the `isLoading` state
  message,      \* admin form: the `message` state
  messageType,  \* admin form: the `messageType` state
  submissions,  \* admin form: per onSubmit call suspended on invoke, the
                \* request sent and the resolver's outcome once it has run
  settled       \* admin form: how the last settled invoke ended (the
                \* resolver's result, or a thrown error)

formVars ==
  << formKey, isLoading, message, messageType, submissions, settled >>

vars ==
  << secret, pc, payload, accessKey, request, fetches, response,
     errorText, data, result, log, resolved, formVars >>

Pending == [kind |-> "pending"]

\* A slot that holds no suspended onSubmit call.
NoSubmission == [stage |-> "none"]

Init ==
  /\ secret = Undefined
  /\ pc = [c \in Calls |-> "idle"]
  /\ payload = [c \in Calls |-> Undefined]
  /\ accessKey = [c \in Calls |-> Unassigned]
  /\ request = [c \in Calls |-> Unassigned]
  /\ fetches = [c \in Calls |-> 0]
  /\ response = [c \in Calls |-> Unassigned]
  /\ errorText = [c \in Calls |-> Unassigned]
  /\ data = [c \in Calls |-> Unassigned]
  /\ result = [c \in Calls |-> Pending]
  /\ log = [c \in Calls |-> << >>]
  /\ resolved = Pending
  /\ formKey = Str(<< >>)
  /\ isLoading = FALSE
  /\ message = Null
  /\ messageType = "info"
  /\ submissions = [i \in Slots |-> NoSubmission]
  /\ settled = Pending

\* ------------------------------------------------------------------------
\* searchPhotos, one action per stretch between two awaits
\* ------------------------------------------------------------------------

\* The platform calls searchPhotos(p): console.log of the payload, then the
\* call suspends on storage.getSecret.
Invoke(c, p) ==
  /\ pc[c] \in {"idle", "done"}
  /\ pc' = [pc EXCEPT ![c] = "getSecret"]
  /\ payload' = [payload EXCEPT ![c] = p]
  /\ accessKey' = [accessKey EXCEPT ![c] = Unassigned]
  /\ request' = [request EXCEPT ![c] = Unassigned]
  /\ fetches' = [fetches EXCEPT ![c] = 0]
  /\ response' = [response EXCEPT ![c] = Unassigned]
  /\ errorText' = [errorText EXCEPT ![c] = Unassigned]
  /\ data' = [data EXCEPT ![c] = Unassigned]
  /\ result' = [result EXCEPT ![c] = Pending]
  /\ log' = [log EXCEPT ![c] =
               << << "log", "searchPhotos called with payload: ", p >> >>]
  /\ UNCHANGED << secret, resolved, formVars >>

\* The invocation ends with outcome o of the try block: the catch clause
\* logs and converts a thrown error, and the function returns.
Settle(c, o, logged) ==
  /\ pc' = [pc EXCEPT ![c] = "done"]
  /\ result' = [result EXCEPT ![c] = Catch(o)]
  /\ log' = [log EXCEPT ![c] = log[c] \o logged \o CatchLog(o)]

\* Variant: the credential is kept in a variable shared by all invocations.
GetSecretReturnsShared(c) ==
  /\ pc[c] = "getSecret"
  /\ accessKey' = [d \in Calls |-> secret]
  /\ LET o == AfterSecret(payload[c], secret)
     IN IF o.kind = "fetch"
        THEN /\ request' = [request EXCEPT ![c] = o.request]
             /\ fetches' = [fetches EXCEPT ![c] = fetches[c] + 1]
             /\ pc' = [pc EXCEPT ![c] = "fetch"]
             /\ UNCHANGED << result, log >>
        ELSE /\ Settle(c, o, << >>)
             /\ UNCHANGED << request, fetches >>
  /\ UNCHANGED << secret, payload, response, errorText, data, resolved, formVars >>

\* getSecret resolves with the stored value; the code runs up to the return
\* of a failure or up to the call of fetch.
GetSecretReturns(c) ==
  /\ pc[c] = "getSecret"
  /\ accessKey' = [accessKey EXCEPT ![c] = secret]
  /\ LET o == AfterSecret(payload[c], secret)
     IN IF o.kind = "fetch"
        THEN /\ request' = [request EXCEPT ![c] = o.request]
             /\ fetches' = [fetches EXCEPT ![c] = fetches[c] + 1]
             /\ pc' = [pc EXCEPT ![c] = "fetch"]
             /\ UNCHANGED << result, log >>
        ELSE /\ Settle(c, o, << >>)
             /\ UNCHANGED << request, fetches >>
  /\ UNCHANGED << secret, payload, response, errorText, data, resolved, formVars >>

\* getSecret rejects.
GetSecretThrows(c) ==
  /\ pc[c] = "getSecret"
  /\ Settle(c, Thr(StoreError), << >>)
  /\ UNCHANGED << secret, payload, accessKey, request, fetches, response,
                  errorText, data, resolved, formVars >>

\* fetch resolves with a response of status s.
FetchResponds(c, s) ==
  /\ pc[c] = "fetch"
  /\ response' = [response EXCEPT ![c] = [status |-> s, ok |-> Ok(s)]]
  /\ pc' = [pc EXCEPT ![c] = IF Ok(s) THEN "json" ELSE "text"]
  /\ UNCHANGED << secret, payload, accessKey, request, fetches, errorText,
                  data, result, log, resolved, formVars >>

\* fetch rejects with error e (network failure).
FetchThrows(c, e) ==
  /\ pc[c] = "fetch"
  /\ Settle(c, Thr(e), << >>)
  /\ UNCHANGED << secret, payload, accessKey, request, fetches, response,
                  errorText, data, resolved, formVars >>

\* Variant: a non-success response is answered by a second request.
TextReturnsRetry(c, text) ==
  /\ pc[c] = "text"
  /\ errorText' = [errorText EXCEPT ![c] = Str(text)]
  /\ fetches' = [fetches EXCEPT ![c] = fetches[c] + 1]
  /\ pc' = [pc EXCEPT ![c] = IF fetches[c] < 2 THEN "fetch" ELSE "done"]
  /\ result' = [result EXCEPT ![c] =
                  IF fetches[c] < 2 THEN result[c]
                  ELSE Ret(OnErrorStatus(response[c].status))]
  /\ UNCHANGED << secret, payload, accessKey, request, response, data, log,
                  resolved, formVars >>

\* response.text() resolves with the error body: it is logged with the
\* status, and the failure for the status is returned.
TextReturns(c, text) ==
  /\ pc[c] = "text"
  /\ errorText' = [errorText EXCEPT ![c] = Str(text)]
  /\ Settle(c, Ret(OnErrorStatus(response[c].status)),
            << << "error", "Unsplash API error:", response[c].status,
                  text >> >>)
  /\ UNCHANGED << secret, payload, accessKey, request, fetches, response,
                  data, resolved, formVars >>

\* response.text() rejects.
TextThrows(c) ==
  /\ pc[c] = "text"
  /\ Settle(c, Thr("TypeError: body stream failed"), << >>)
  /\ UNCHANGED << secret, payload, accessKey, request, fetches, response,
                  errorText, data, resolved, formVars >>

\* response.json() resolves with the parsed body d.
JsonReturns(c, d) ==
  /\ pc[c] = "json"
  /\ data' = [data EXCEPT ![c] = d]
  /\ Settle(c, OnJson(d, payload[c].query), << >>)
  /\ UNCHANGED << secret, payload, accessKey, request, fetches, response,
                  errorText, resolved, formVars >>

\* response.json() rejects with error e (malformed JSON).
JsonThrows(c, e) ==
  /\ pc[c] = "json"
  /\ Settle(c, Thr(e), << >>)
  /\ UNCHANGED << secret, payload, accessKey, request, fetches, response,
                  errorText, data, resolved, formVars >>

\* ------------------------------------------------------------------------
\* Resolver calls
\* ------------------------------------------------------------------------
callVars ==
  << pc, payload, accessKey, request, fetches, response, errorText, data,
     result, log >>

\* The effect of one run of the saveAccessKey resolver on the store and on
\* the record of the last resolver call.
SaveAccessKeyCall(req, fault) ==
  LET run == SaveAccessKeyRun(req, secret, fault)
  IN /\ secret' = run.store
     /\ resolved' = [kind |-> "saveAccessKey", req |-> req,
                     outcome |-> run.outcome,
                     setSecretCalls |-> run.setSecretCalls,
                     storeThrew |-> run.storeThrew]

SaveAccessKey(req, fault) ==
  /\ SaveAccessKeyCall(req, fault)
  /\ UNCHANGED << callVars, formVars >>

IsAccessKeySet(fault) ==
  /\ resolved' = [kind |-> "isAccessKeySet",
                  outcome |-> IsAccessKeySetRun(secret, fault),
                  setSecretCalls |-> 0,
                  storeThrew |-> fault]
  /\ UNCHANGED << callVars, secret, formVars >>

\* ------------------------------------------------------------------------
\* Admin form (src/frontend/admin.jsx)
\* ------------------------------------------------------------------------
FormSavedMsg == Str(<< "Access key saved successfully!" >>)
FormFallbackMsg == Str(<< "Failed to save access key" >>)
FormUnexpectedMsg ==
  Str(<< "An unexpected error occurred. Please try again." >>)

\* `result.error || 'Failed to save access key'`
ErrorOr(res) ==
  IF "error" \in DOMAIN res /\ res.error # << >>
  THEN Str(res.error)
  ELSE FormFallbackMsg

\* Variant: the input is cleared whatever the result.
AfterInvokeClearing(o, key) ==
  IF o.kind = "return"
  THEN IF o.value.success
       THEN [accessKey |-> Str(<< >>), messageType |-> "success",
             message |-> FormSavedMsg]
       ELSE [accessKey |-> Str(<< >>), messageType |-> "error",
             message |-> ErrorOr(o.value)]
  ELSE [accessKey |-> Str(<< >>), messageType |-> "error",
        message |-> FormUnexpectedMsg]

\* The states set by onSubmit after the await, for an invoke that ended
\* with o while the input held key: the branches on result.success inside
\* the try, and the catch clause.
AfterInvoke(o, key) ==
  IF o.kind = "return"
  THEN IF o.value.success
       THEN [accessKey |-> Str(<< >>), messageType |-> "success",
             message |-> FormSavedMsg]
       ELSE [accessKey |-> key, messageType |-> "error",
             message |-> ErrorOr(o.value)]
  ELSE [accessKey |-> key, messageType |-> "error",
        message |-> FormUnexpectedMsg]

\* The request invoke sends: `{ accessKey: accessKey.trim() }`.
FormRequest(key) ==
  [payload |-> [t |-> "object", accessKey |-> Str(Trim(key.v))]]

\* onChange of the text field.
ChangeKey(text) ==
  /\ formKey' = text
  /\ UNCHANGED << isLoading, message, messageType, submissions, settled,
                  secret, resolved, callVars >>

\* onSubmit up to its await: the two state updates, then the call of invoke.
\* The handler itself tests neither the input nor isLoading.
OnSubmit(i) ==
  /\ submissions[i] = NoSubmission
  /\ \A j \in Slots : j < i => submissions[j] # NoSubmission
  /\ isLoading' = TRUE
  /\ message' = Null
  /\ submissions' = [submissions EXCEPT
                       ![i] = [stage |-> "invoked", req |-> FormRequest(formKey)]]
  /\ UNCHANGED << formKey, messageType, settled, secret, resolved, callVars >>

\* The bridge delivers the request and the saveAccessKey resolver runs.
ResolverRuns(i, fault) ==
  /\ submissions[i].stage = "invoked"
  /\ SaveAccessKeyCall(submissions[i].req, fault)
  /\ submissions' =
       [submissions EXCEPT
          ![i] = [stage |-> "ran", req |-> submissions[i].req,
                  outcome |-> SaveAccessKeyRun(submissions[i].req, secret,
                                               fault).outcome]]
  /\ UNCHANGED << formKey, isLoading, message, messageType, settled, callVars >>

\* onSubmit from its await to its end, the finally clause included.
Continue(i, o) ==
  LET after == AfterInvoke(o, formKey)
  IN /\ formKey' = after.accessKey
     /\ messageType' = after.messageType
     /\ message' = after.message
     /\ isLoading' = FALSE
     /\ settled' = o
     /\ submissions' = [submissions EXCEPT ![i] = NoSubmission]
     /\ UNCHANGED << secret, resolved, callVars >>

\* invoke resolves with the resolver's result (or rejects with what the
\* resolver threw).
InvokeResolves(i) ==
  /\ submissions[i].stage = "ran"
  /\ Continue(i, submissions[i].outcome)

\* invoke rejects: the bridge fails before or after the resolver ran.
InvokeRejects(i, e) ==
  /\ submissions[i].stage \in {"invoked", "ran"}
  /\ Continue(i, Thr(e))

\* ------------------------------------------------------------------------
\* Specification: one searchPhotos invocation at a time, interleaved with
\* the administrator's resolver calls.
\* ------------------------------------------------------------------------
Next ==
  \/ \E c \in SeqCalls, p \in Payloads : Invoke(c, p)
  \/ \E c \in SeqCalls : GetSecretReturns(c)
  \/ \E c \in SeqCalls : GetSecretThrows(c)
  \/ \E c \in SeqCalls, s \in Statuses : FetchResponds(c, s)
  \/ \E c \in SeqCalls, e \in FetchErrors : FetchThrows(c, e)
  \/ \E c \in SeqCalls, e \in ErrorTexts : TextReturns(c, e)
  \/ \E c \in SeqCalls : TextThrows(c)
  \/ \E c \in SeqCalls, d \in Bodies : JsonReturns(c, d)
  \/ \E c \in SeqCalls, e \in JsonErrors : JsonThrows(c, e)
  \/ \E req \in SaveRequests, fault \in BOOLEAN : SaveAccessKey(req, fault)
  \/ \E fault \in BOOLEAN : IsAccessKeySet(fault)

Spec == Init /\ [][Next]_vars

\* ------------------------------------------------------------------------
\* Specification: two searchPhotos invocations running concurrently with
\* each other and with the resolver calls, on a reduced set of inputs.
\* ------------------------------------------------------------------------
ConcPayloads ==
  {Undefined,
   [t |-> "object", query |-> Str(<< >>), color |-> Undefined,
    orientation |-> Undefined],
   [t |-> "object", query |-> Str(<< " ", "cats", " " >>),
    color |-> Str(<< "red" >>), orientation |-> Undefined]}

ConcStatuses == {200, 401, 500}

ConcBodies ==
  {[t |-> "object", total |-> Num(137), results |-> [t |-> "array", v |-> l]] :
     l \in {<< >>, << PhotoFull >>, << PhotoAlt, PhotoNoUrls >>}}

ConcSaveRequests ==
  {[payload |-> [t |-> "object", accessKey |-> k]] :
     k \in {Str(<< " " >>), Str(<< " ", "k1", " " >>), Str(<< "k2" >>)}}

ConcNext ==
  \/ \E c \in Calls, p \in ConcPayloads : Invoke(c, p)
  \/ \E c \in Calls : GetSecretReturns(c)
  \/ \E c \in Calls : GetSecretThrows(c)
  \/ \E c \in Calls, s \in ConcStatuses : FetchResponds(c, s)
  \/ \E c \in Calls, e \in FetchErrors : FetchThrows(c, e)
  \/ \E c \in Calls, e \in ErrorTexts : TextReturns(c, e)
  \/ \E c \in Calls : TextThrows(c)
  \/ \E c \in Calls, d \in ConcBodies : JsonReturns(c, d)
  \/ \E c \in Calls, e \in JsonErrors : JsonThrows(c, e)
  \/ \E req \in ConcSaveRequests, fault \in BOOLEAN : SaveAccessKey(req, fault)
  \/ \E fault \in BOOLEAN : IsAccessKeySet(fault)

ConcSpec == Init /\ [][ConcNext]_vars

\* ------------------------------------------------------------------------
\* Specification: the administrator types into the form and submits it;
\* the submissions run the saveAccessKey resolver against the store.
\* ------------------------------------------------------------------------
FormNext ==
  \/ \E text \in TypedKeys : ChangeKey(text)
  \/ \E i \in Slots : OnSubmit(i)
  \/ \E i \in Slots, fault \in BOOLEAN : ResolverRuns(i, fault)
  \/ \E i \in Slots : InvokeResolves(i)
  \/ \E i \in Slots, e \in BridgeErrors : InvokeRejects(i, e)

FormSpec == Init /\ [][FormNext]_vars

\* ------------------------------------------------------------------------
\* Properties of searchPhotos
\* ------------------------------------------------------------------------
Done(c) == pc[c] = "done"
Assigned(x) == x # Unassigned
Returned(c, r) == result[c] = Ret(r)

\* The payload is an object whose query is omitted, empty or whitespace-only.
BlankQuery(p) ==
  /\ ~Nullish(p)
  /\ \/ p.query.t = "undefined"
     \/ p.query.t = "string" /\ Trim(p.query.v) = << >>

\* C1: when getSecret resolves with no credential, the call returns the
\* not-configured Failure whatever the payload is, and no request is issued.
C1_NotConfiguredShortCircuits ==
  \A c \in Calls :
    (Done(c) /\ Assigned(accessKey[c]) /\ KeyMissing(accessKey[c]))
      => /\ Returned(c, [error |-> NotConfiguredMsg, status |-> "error"])
         /\ fetches[c] = 0
         /\ request[c] = Unassigned

C1_Witness ==
  \E c \in Calls :
    /\ Done(c) /\ accessKey[c] = Undefined
    /\ ~Nullish(payload[c]) /\ payload[c].query = Str(<< >>)
    /\ Returned(c, Failure(NotConfiguredMsg))

NoResultList(d) ==
  \/ d.results \in {Undefined, Null}
  \/ d.results.t = "array" /\ d.results.v = << >>

\* C3: an ok response whose result list is empty or absent yields Success
\* with total 0 and no results, whatever total the body reports.
C3_EmptyIsSuccess ==
  \A c \in Calls :
    (Done(c) /\ Assigned(data[c]) /\ NoResultList(data[c]))
      => /\ result[c].kind = "return"
         /\ result[c].value.status = "success"
         /\ result[c].value.total = Num(0)
         /\ result[c].value.results = << >>

C3_Witness ==
  \E c \in Calls :
    /\ Done(c) /\ Assigned(data[c])
    /\ data[c].results = [t |-> "array", v |-> << >>]
    /\ data[c].total = Num(137)
    /\ result[c].value.status = "success"
    /\ result[c].value.total = Num(0)

\* C4: a 401 response whose body was read yields the invalid-access-key
\* Failure, whatever the query, the filters and the body text are.
C4_UnauthorizedMessage ==
  \A c \in Calls :
    (Done(c) /\ Assigned(response[c]) /\ response[c].status = 401
       /\ Assigned(errorText[c]))
      => Returned(c, [error |-> InvalidKeyMsg, status |-> "error"])

C4_Witness ==
  \E c \in Calls :
    /\ Done(c) /\ Assigned(response[c]) /\ response[c].status = 401
    /\ Assigned(errorText[c])
    /\ payload[c].color = Str(<< "red" >>)
    /\ Returned(c, Failure(InvalidKeyMsg))

\* C5: every non-success status s other than 401 whose body was read yields
\* Failure 'Unsplash API error: ' followed by the decimal digits of s, and
\* 401 is the only non-success status with another message.
C5_ApiErrorMessage ==
  \A c \in Calls :
    (Done(c) /\ Assigned(response[c]) /\ ~response[c].ok
       /\ Assigned(errorText[c]))
      => /\ result[c].kind = "return"
         /\ result[c].value.status = "error"
         /\ DOMAIN result[c].value = {"error", "status"}
         /\ (result[c].value.error
               = << "Unsplash API error: " >> \o NatToStr(response[c].status))
              <=> response[c].status # 401
         /\ response[c].status = 500
              => result[c].value.error
                   = << "Unsplash API error: ", "5", "0", "0" >>
         /\ response[c].status = 403
              => result[c].value.error
                   = << "Unsplash API error: ", "4", "0", "3" >>

C5_Witness ==
  \E c \in Calls :
    /\ Done(c) /\ Assigned(response[c]) /\ response[c].status = 429
    /\ Assigned(errorText[c])
    /\ Returned(c, Failure(<< "Unsplash API error: ", "4", "2", "9" >>))

\* A raw entry on which the mapping callback throws.
LacksNested(photo) ==
  \/ photo.urls = Undefined
  \/ photo.user = Undefined
  \/ photo.user.links = Undefined
  \/ photo.links = Undefined

\* The invocation ended through a thrown error: the store read, the payload
\* destructuring, fetch, the read of the error body, the JSON parse, or the
\* mapping of an entry.
Faulted(c) ==
  /\ Done(c)
  /\ \/ ~Assigned(accessKey[c])
     \/ Assigned(accessKey[c]) /\ Truthy(accessKey[c]) /\ Nullish(payload[c])
     \/ fetches[c] > 0 /\ ~Assigned(response[c])
     \/ Assigned(response[c]) /\ ~response[c].ok /\ ~Assigned(errorText[c])
     \/ Assigned(response[c]) /\ response[c].ok /\ ~Assigned(data[c])
     \/ /\ Assigned(data[c])
        /\ ~NoResultList(data[c])
        /\ \E i \in 1..Len(data[c].results.v) :
             LacksNested(data[c].results.v[i])

\* C6: every finished invocation has returned a response with status
\* 'success' or 'error' (nothing was thrown to the caller), and an
\* invocation in which a step threw has returned the generic Failure.
C6_NoFaultPropagates ==
  \A c \in Calls :
    /\ Done(c) => /\ result[c].kind = "return"
                  /\ result[c].value.status \in {"success", "error"}
    /\ ~Done(c) => result[c] = Pending
    /\ Faulted(c)
         => Returned(c, [error |->
                           << "Failed to search photos. Please try again later." >>,
                         status |-> "error"])

C6_Witness ==
  \E c \in Calls :
    /\ Faulted(c)
    /\ Assigned(data[c])
    /\ Returned(c, Failure(GenericFailureMsg))

\* The invocation returned a Success built from a non-empty result list.
FoundSuccess(c) ==
  /\ Done(c) /\ Assigned(data[c]) /\ ~NoResultList(data[c])
  /\ result[c].kind = "return"
  /\ result[c].value.status = "success"

\* C7: a Success built from a non-empty result list carries the total the
\* remote body reports, one result per remote entry in the remote order, and
\* a message interpolating that total and the query as it was passed.
C7_TotalIsRemoteTotal ==
  \A c \in Calls :
    FoundSuccess(c)
      => LET r == result[c].value
             raw == data[c].results.v
         IN /\ r.total = data[c].total
            /\ Len(r.results) = Len(raw)
            /\ \A i \in 1..Len(raw) : r.results[i].id = raw[i].id
            /\ r.message
                 = << "Found " >> \o ToStr(data[c].total)
                     \o << " photos for \"" >> \o payload[c].query.v
                     \o << "\"" >>
            /\ (data[c].total = Num(137)
                  /\ payload[c].query = Str(<< " ", "cats", " " >>))
                 => r.message
                      = << "Found ", "1", "3", "7", " photos for \"",
                           " ", "cats", " ", "\"" >>

C7_Witness ==
  \E c \in Calls :
    /\ FoundSuccess(c)
    /\ data[c].total = Num(137)
    /\ data[c].results.v = << PhotoAlt, PhotoFull >>
    /\ payload[c].query = Str(<< " ", "cats", " " >>)
    /\ result[c].value.total = Num(137)
    /\ result[c].value.results[1].id = Str(<< "p2" >>)
    /\ result[c].value.results[2].id = Str(<< "p1" >>)

\* A field that is present and a non-empty string.
PresentNonEmpty(x) == x.t = "string" /\ x.v # << >>

\* C8: the description of a mapped entry is the entry's description when
\* present and non-empty, else its alt_description when present and
\* non-empty, else 'Untitled'.
C8_DescriptionFallback ==
  \A c \in Calls :
    FoundSuccess(c)
      => \A i \in 1..Len(data[c].results.v) :
           LET raw == data[c].results.v[i]
               d == result[c].value.results[i].description
           IN /\ PresentNonEmpty(raw.description) => d = raw.description
              /\ (~PresentNonEmpty(raw.description)
                    /\ PresentNonEmpty(raw.alt_description))
                   => d = raw.alt_description
              /\ (~PresentNonEmpty(raw.description)
                    /\ ~PresentNonEmpty(raw.alt_description))
                   => d = Str(<< "Untitled" >>)

C8_Witness ==
  \E c \in Calls :
    /\ FoundSuccess(c)
    /\ data[c].results.v = << PhotoNullDesc, PhotoAlt >>
    /\ result[c].value.results[1].description = Str(<< "Untitled" >>)
    /\ result[c].value.results[2].description = Str(<< "grey kitten" >>)

\* The values under key name in an ordered parameter list.
RECURSIVE ValuesOf(_, _)
ValuesOf(params, name) ==
  IF params = << >> THEN << >>
  ELSE (IF Head(params)[1] = name THEN << Head(params)[2] >> ELSE << >>)
         \o ValuesOf(Tail(params), name)

ParamKeys(params) == {params[i][1] : i \in 1..Len(params)}

\* The parameters every outbound request carries.
FixedParams(c) ==
  LET ps == request[c].params
  IN /\ request[c].method = "GET"
     /\ ValuesOf(ps, "query") = << payload[c].query.v >>
     /\ ValuesOf(ps, "per_page") = << << "1", "0" >> >>
     /\ ValuesOf(ps, "client_id") = << accessKey[c].v >>
     /\ ParamKeys(ps)
          \subseteq {"query", "per_page", "client_id", "color", "orientation"}

\* The payload supplies the property (the key is not omitted).
Supplied(x) == x # Undefined

\* C9 as stated: color and orientation are sent exactly when the request
\* supplies them.
C9_Original ==
  \A c \in Calls :
    Assigned(request[c])
      => LET ps == request[c].params
         IN /\ FixedParams(c)
            /\ ValuesOf(ps, "color")
                 = IF Supplied(payload[c].color)
                   THEN << ToStr(payload[c].color) >> ELSE << >>
            /\ ValuesOf(ps, "orientation")
                 = IF Supplied(payload[c].orientation)
                   THEN << ToStr(payload[c].orientation) >> ELSE << >>

\* C9 amended: the request carries query, per_page=10 and client_id, and
\* carries color (orientation) once with the supplied value exactly when the
\* request supplies a non-empty color (orientation); an omitted, null or
\* empty filter adds no key; no other key is sent.
C9_ParamsExact ==
  \A c \in Calls :
    Assigned(request[c])
      => LET ps == request[c].params
         IN /\ FixedParams(c)
            /\ ValuesOf(ps, "color")
                 = IF PresentNonEmpty(payload[c].color)
                   THEN << payload[c].color.v >> ELSE << >>
            /\ ValuesOf(ps, "orientation")
                 = IF PresentNonEmpty(payload[c].orientation)
                   THEN << payload[c].orientation.v >> ELSE << >>

C9_Witness ==
  \E c \in Calls :
    /\ Assigned(request[c])
    /\ payload[c].color = Str(<< "red" >>)
    /\ payload[c].orientation = Undefined
    /\ request[c].params
         = << << "query", << " ", "cats", " " >> >>,
              << "per_page", << "1", "0" >> >>,
              << "client_id", << "k1" >> >>,
              << "color", << "red" >> >> >>

\* C10 as stated: the seven fields are named id, description, url,
\* thumbnail, photographer, photographerUrl and downloadUrl.
C10_Original ==
  \A c \in Calls :
    FoundSuccess(c)
      => \A i \in 1..Len(result[c].value.results) :
           DOMAIN result[c].value.results[i]
             = {"id", "description", "url", "thumbnail", "photographer",
                "photographerUrl", "downloadUrl"}

\* C10 amended: every result has exactly the seven fields id, description,
\* url, thumbnail, photographer, photographer_url and download_url, taken
\* from the raw entry's id, description fallback, urls.regular, urls.thumb,
\* user.name, user.links.html and links.download_location.
C10_PhotoResultShape ==
  \A c \in Calls :
    FoundSuccess(c)
      => \A i \in 1..Len(result[c].value.results) :
           LET r == result[c].value.results[i]
               raw == data[c].results.v[i]
           IN /\ DOMAIN r
                   = {"id", "description", "url", "thumbnail", "photographer",
                      "photographer_url", "download_url"}
              /\ r.id = raw.id
              /\ r.description \in
                   {raw.description, raw.alt_description, Str(<< "Untitled" >>)}
              /\ r.url = raw.urls.regular
              /\ r.thumbnail = raw.urls.thumb
              /\ r.photographer = raw.user.name
              /\ r.photographer_url = raw.user.links.html
              /\ r.download_url = raw.links.download_location

C10_Witness ==
  \E c \in Calls :
    /\ FoundSuccess(c)
    /\ data[c].results.v = << PhotoFull >>
    /\ result[c].value.results[1].url
         = Str(<< "https://images.unsplash.com/", "p1", "?w=1080" >>)
    /\ result[c].value.results[1].download_url
         = Str(<< "https://api.unsplash.com/photos/", "p1", "/download" >>)

\* ------------------------------------------------------------------------
\* Ordering of the steps of one invocation
\* ------------------------------------------------------------------------

\* C11: an invocation issues at most one request, and only after its store
\* read resolved with a credential and its query passed validation; once the
\* request is issued, no later step of the invocation issues another one.
C11_SingleFetch ==
  /\ [](\A c \in Calls :
          /\ fetches[c] <= 1
          /\ fetches[c] = 1
               => /\ Assigned(accessKey[c]) /\ Truthy(accessKey[c])
                  /\ ~Nullish(payload[c]) /\ Truthy(payload[c].query)
                  /\ Assigned(request[c])
          /\ fetches[c] = 0
               => ~Assigned(request[c]) /\ ~Assigned(response[c]))
  /\ [][\A c \in Calls :
          /\ fetches'[c] > fetches[c]
               => /\ pc[c] = "getSecret"
                  /\ Truthy(secret)
                  /\ accessKey'[c] = secret
          /\ (pc[c] \in {"fetch", "text", "json"} /\ pc'[c] # "getSecret")
               => fetches'[c] = fetches[c] /\ request'[c] = request[c]]_vars

C11_Witness ==
  \E c \in Calls :
    /\ Done(c)
    /\ fetches[c] = 1
    /\ Assigned(response[c]) /\ response[c].status = 500
    /\ Assigned(errorText[c])

\* ------------------------------------------------------------------------
\* Properties of the resolvers
\* ------------------------------------------------------------------------

\* The step is a call of saveAccessKey with a payload (resolved' describes
\* it).
SaveStep ==
  /\ resolved'.kind = "saveAccessKey"
  /\ callVars' = callVars
  /\ ~Nullish(resolved'.req.payload)

\* The submitted key is missing, empty or whitespace-only.
BlankKey(k) == k = Undefined \/ (k.t = "string" /\ Trim(k.v) = << >>)

\* C12: saveAccessKey with a missing, empty or whitespace-only key returns
\* {success: false, error: 'Access key is required'}, does not call
\* setSecret, and leaves the stored credential as it was.
C12_BlankKeyRejected ==
  [][(SaveStep /\ BlankKey(resolved'.req.payload.accessKey))
       => /\ resolved'.outcome
               = Ret([success |-> FALSE,
                      error |-> << "Access key is required" >>])
          /\ resolved'.setSecretCalls = 0
          /\ secret' = secret]_vars

C12_Witness ==
  /\ resolved.kind = "saveAccessKey"
  /\ ~Nullish(resolved.req.payload)
  /\ resolved.req.payload.accessKey = Str(<< " " >>)
  /\ resolved.outcome = Ret([success |-> FALSE, error |-> KeyRequiredMsg])
  /\ secret = Str(<< "k2" >>)

\* C13: saveAccessKey with a key that has a non-whitespace character calls
\* setSecret once; if the store accepts, the result has success true and
\* the stored credential is the submitted key without leading and trailing
\* whitespace.
C13_KeySavedTrimmed ==
  [][(SaveStep /\ ~BlankKey(resolved'.req.payload.accessKey))
       => /\ resolved'.setSecretCalls = 1
          /\ resolved'.outcome.kind = "return"
          /\ ~resolved'.storeThrew
               => /\ resolved'.outcome.value.success = TRUE
                  /\ secret' = Str(Trim(resolved'.req.payload.accessKey.v))
          /\ resolved'.outcome.value.success = TRUE
               => secret' = Str(Trim(resolved'.req.payload.accessKey.v))]_vars

C13_Witness ==
  /\ resolved.kind = "saveAccessKey"
  /\ ~Nullish(resolved.req.payload)
  /\ resolved.req.payload.accessKey = Str(<< " ", "k1", " " >>)
  /\ resolved.setSecretCalls = 1
  /\ resolved.outcome.value.success = TRUE
  /\ secret = Str(<< "k1" >>)

\* sub occurs in text as a contiguous run of atoms.
Contains(text, sub) ==
  \E i \in 1..(Len(text) - Len(sub) + 1) :
    SubSeq(text, i, i + Len(sub) - 1) = sub

\* C14: when setSecret throws, saveAccessKey returns {success: false,
\* error: 'Failed to save Access key. Please try again.'} instead of
\* throwing, and the error holds neither the fault's text nor the key.
C14_StoreFaultIsGeneric ==
  (resolved.kind = "saveAccessKey" /\ resolved.storeThrew)
    => /\ resolved.outcome.kind = "return"
       /\ resolved.outcome.value
            = [success |-> FALSE,
               error |-> << "Failed to save Access key. Please try again." >>]
       /\ ~Contains(resolved.outcome.value.error, << StoreError >>)
       /\ ~Contains(resolved.outcome.value.error,
                    resolved.req.payload.accessKey.v)
       /\ ~Contains(resolved.outcome.value.error,
                    Trim(resolved.req.payload.accessKey.v))

C14_Witness ==
  /\ resolved.kind = "saveAccessKey"
  /\ resolved.storeThrew
  /\ resolved.setSecretCalls = 1
  /\ resolved.req.payload.accessKey = Str(<< "k2" >>)
  /\ resolved.outcome = Ret([success |-> FALSE, error |-> SaveFailedMsg])

\* C15: isAccessKeySet returns isSet true exactly when its store read
\* resolves with a non-empty credential, and its result is the same for
\* every non-empty credential: no field of it holds the stored value.
C15_StatusHidesKey ==
  resolved.kind = "isAccessKeySet"
    => LET v == resolved.outcome.value
       IN /\ resolved.outcome.kind = "return"
          /\ v.isSet = (~resolved.storeThrew /\ secret # Undefined
                          /\ secret # Str(<< >>))
          /\ DOMAIN v \subseteq {"isSet", "error"}
          /\ "error" \in DOMAIN v
               => /\ v.error = << "Failed to check access key status." >>
                  /\ resolved.storeThrew
                  /\ secret # Undefined => ~Contains(v.error, secret.v)
          /\ \A k1, k2 \in {Str(<< "k1" >>), Str(<< "k2" >>)} :
               IsAccessKeySetRun(k1, resolved.storeThrew)
                 = IsAccessKeySetRun(k2, resolved.storeThrew)
          /\ secret # Undefined
               => resolved.outcome
                    = IsAccessKeySetRun(Str(<< "another key" >>),
                                        resolved.storeThrew)

C15_Witness ==
  /\ resolved.kind = "isAccessKeySet"
  /\ ~resolved.storeThrew
  /\ secret = Str(<< "k2" >>)
  /\ resolved.outcome = Ret([isSet |-> TRUE])

\* ------------------------------------------------------------------------
\* What a response of searchPhotos depends on and reveals
\* ------------------------------------------------------------------------

\* Two finished invocations had the same request, read the same credential,
\* and got the same remote response, failing (if at all) at the same await;
\* the text of the error body and the thrown errors may differ.
SameInputs(c, d) ==
  /\ Done(c) /\ Done(d)
  /\ payload[c] = payload[d]
  /\ accessKey[c] = accessKey[d]
  /\ fetches[c] = fetches[d]
  /\ response[c] = response[d]
  /\ Assigned(errorText[c]) = Assigned(errorText[d])
  /\ data[c] = data[d]

\* The message text of a returned response.
ResponseText(r) == IF r.status = "error" THEN r.error ELSE r.message

\* The errors logged by the catch clause of an invocation.
CaughtErrors(c) ==
  {log[c][i][3] : i \in {j \in 1..Len(log[c]) :
                          log[c][j][2] = "Error searching photos:"}}

\* C16: two invocations that differ only in the text of the error body or
\* in the error that was thrown return the same response, and no response
\* contains the error body, the thrown error, or the credential.
C16_ResponseIndependentOfErrors ==
  /\ \A c, d \in Calls : SameInputs(c, d) => result[c] = result[d]
  /\ \A c \in Calls :
       (Done(c) /\ result[c].kind = "return")
         => LET text == ResponseText(result[c].value)
            IN /\ Assigned(errorText[c])
                    => ~Contains(text, errorText[c].v)
               /\ \A e \in CaughtErrors(c) : ~Contains(text, << e >>)
               /\ (Assigned(accessKey[c]) /\ Truthy(accessKey[c]))
                    => ~Contains(text, accessKey[c].v)

C16_Witness ==
  \E c, d \in Calls :
    /\ c # d
    /\ SameInputs(c, d)
    /\ \/ /\ Assigned(errorText[c]) /\ Assigned(errorText[d])
          /\ errorText[c] # errorText[d]
          /\ response[c].status = 500
       \/ /\ CaughtErrors(c) # {} /\ CaughtErrors(d) # {}
          /\ CaughtErrors(c) # CaughtErrors(d)
          /\ fetches[c] = 1
    /\ result[c] = result[d]
    /\ log[c] # log[d]

\* C17 as stated: no response holds the status code of the remote response.
C17_Original ==
  \A c \in Calls :
    (Done(c) /\ Assigned(response[c]) /\ result[c].kind = "return")
      => ~Contains(ResponseText(result[c].value),
                   NatToStr(response[c].status))

\* C17 amended: the body of a non-success response is recorded only in the
\* log, never in the response; the status code is logged with it and is
\* returned only as the end of 'Unsplash API error: <status>', which is the
\* response to every non-success status other than 401; the responses to a
\* 401 and to a success do not hold the status code.
C17_StatusOnlyInApiError ==
  \A c \in Calls :
    (Done(c) /\ Assigned(response[c]) /\ result[c].kind = "return")
      => LET text == ResponseText(result[c].value)
             code == NatToStr(response[c].status)
         IN /\ Contains(text, code)
                 <=> (~response[c].ok /\ response[c].status # 401
                        /\ Assigned(errorText[c]))
            /\ Contains(text, code) => text = << "Unsplash API error: " >> \o code
            /\ Assigned(errorText[c])
                 => /\ ~Contains(text, errorText[c].v)
                    /\ log[c][Len(log[c])]
                         = << "error", "Unsplash API error:",
                              response[c].status, errorText[c].v >>

C17_Witness ==
  \E c \in Calls :
    /\ Done(c) /\ Assigned(response[c]) /\ response[c].status = 404
    /\ Assigned(errorText[c])
    /\ result[c].value.error = << "Unsplash API error: ", "4", "0", "4" >>

\* The state of one invocation.
CallState(c) ==
  << pc[c], payload[c], accessKey[c], request[c], fetches[c], response[c],
     errorText[c], data[c], result[c], log[c] >>

\* C18: under every interleaving of two invocations and the resolvers, a
\* step of an invocation changes nothing but that invocation's own state
\* (not the store, not the other invocation), the credential changes only
\* in a successful saveAccessKey step, and the response is determined by the
\* invocation's request, the credential it read and its remote response.
C18_NoSharedState ==
  /\ [][/\ \A c \in Calls :
             CallState(c)' # CallState(c)
               => /\ secret' = secret
                  /\ resolved' = resolved
                  /\ \A d \in Calls \ {c} : CallState(d)' = CallState(d)
        /\ secret' # secret
             => /\ resolved'.kind = "saveAccessKey"
                /\ resolved'.outcome.kind = "return"
                /\ resolved'.outcome.value.success = TRUE
                /\ \A c \in Calls : CallState(c)' = CallState(c)]_vars
  /\ [](\A c, d \in Calls : SameInputs(c, d) => result[c] = result[d])

C18_Witness ==
  \E c, d \in Calls :
    /\ c # d
    /\ pc[c] = "fetch" /\ pc[d] = "json"
    /\ accessKey[c] = Str(<< "k1" >>)
    /\ accessKey[d] = Str(<< "k2" >>)
    /\ secret = Str(<< "k1" >>)

\* ------------------------------------------------------------------------
\* The stored credential
\* ------------------------------------------------------------------------

\* C19: the credential is created or overwritten, never deleted: it changes
\* only in a successful saveAccessKey, once present it stays present, and
\* while it is present isAccessKeySet (with a working store) answers true
\* and no step of searchPhotos returns the not-configured Failure.
C19_CredentialNeverDeleted ==
  /\ [][/\ Truthy(secret) => Truthy(secret')
        /\ secret' # secret
             => /\ resolved'.kind = "saveAccessKey"
                /\ resolved'.outcome = Ret([success |-> TRUE,
                                            message |-> SavedMsg])
        /\ \A c \in Calls :
             (Truthy(secret) /\ CallState(c)' # CallState(c))
               => result'[c] # Ret(Failure(NotConfiguredMsg))]_vars
  /\ [](/\ (resolved.kind = "saveAccessKey"
              /\ resolved.outcome.kind = "return"
              /\ resolved.outcome.value.success)
            => Truthy(secret)
        /\ (resolved.kind = "isAccessKeySet" /\ ~resolved.storeThrew
              /\ Truthy(secret))
            => resolved.outcome.value.isSet = TRUE)

C19_Witness ==
  /\ secret = Str(<< "k1" >>)
  /\ resolved.kind = "saveAccessKey"
  /\ ~Nullish(resolved.req.payload)
  /\ resolved.req.payload.accessKey = Str(<< >>)
  /\ resolved.outcome.value.success = FALSE
  /\ \E c \in Calls :
       Done(c) /\ accessKey[c] = Str(<< "k1" >>) /\ fetches[c] = 1

\* C20: the stored credential is absent, or a non-empty string that neither
\* starts nor ends with whitespace.
C20_StoredKeyTrimmed ==
  \/ secret = Undefined
  \/ /\ secret.t = "string"
     /\ secret.v # << >>
     /\ ~IsSpace(secret.v[1])
     /\ ~IsSpace(secret.v[Len(secret.v)])

C20_Witness ==
  /\ secret = Str(<< "k1" >>)
  /\ resolved.kind = "saveAccessKey"
  /\ ~Nullish(resolved.req.payload)
  /\ resolved.req.payload.accessKey = Str(<< " " >>)
  /\ resolved.setSecretCalls = 0

\* ------------------------------------------------------------------------
\* Properties of the admin form
\* ------------------------------------------------------------------------

\* The invoke ended with a result that reports success.
ReportedSuccess(o) == o.kind = "return" /\ o.value.success = TRUE

\* C21: every submission sets isLoading to true and clears the message as it
\* invokes saveAccessKey; when the invocation settles (with success, with a
\* structured failure, or by throwing), isLoading is false and a non-empty
\* message is shown, the message type is 'success' exactly when the result
\* reported success, the input is cleared in that case and is left as it
\* was in every other case.
C21_FormSubmission ==
  [][\A i \in Slots :
       /\ (submissions[i] = NoSubmission /\ submissions'[i] # NoSubmission)
            => /\ isLoading' = TRUE
               /\ message' = Null
               /\ submissions'[i].stage = "invoked"
       /\ (submissions[i] # NoSubmission /\ submissions'[i] = NoSubmission)
            => /\ settled'.kind = "return"
                    => /\ submissions[i].stage = "ran"
                       /\ settled' = submissions[i].outcome
               /\ isLoading' = FALSE
               /\ Truthy(message')
               /\ (messageType' = "success") <=> ReportedSuccess(settled')
               /\ ReportedSuccess(settled') => formKey' = Str(<< >>)
               /\ ~ReportedSuccess(settled') => formKey' = formKey]_vars

C21_Witness ==
  /\ settled = Ret([success |-> TRUE, message |-> SavedMsg])
  /\ secret = Str(<< "k1" >>)
  /\ submissions[1] = NoSubmission
  /\ submissions[2].stage = "ran"
  /\ submissions[2].outcome = Ret([success |-> FALSE, error |-> KeyRequiredMsg])
  /\ isLoading = FALSE
  /\ messageType = "success"
  /\ message = FormSavedMsg
  /\ formKey = Str(<< >>)

====
